---------------------------- MODULE Spec2Model ----------------------------
(***************************************************************************)
(* A model of the sharded memory pool of src/src/lib.rs.                   *)
(*                                                                         *)
(* MemPool<T> owns a vector of buckets (each a Mutex<Vec<T>>), two atomic  *)
(* round-robin counters and the per-bucket capacity.  Items leave a bucket *)
(* inside a ModifiableMemShare (exclusive handle), which can be dropped    *)
(* (the item is re-attached), detached, or frozen into an                  *)
(* Arc<ShareableMemShare> (shared handle) that is cloned and dropped.      *)
(*                                                                         *)
(* Threads interleave at the granularity the code gives them: one step per *)
(* atomic fetch_add together with the thread-local code around it, and one *)
(* step per critical section of a bucket's mutex.  A thread never holds    *)
(* two bucket locks, so a critical section is one atomic step.             *)
(*                                                                         *)
(* Items are numbered.  The items built by MemPool::new are                *)
(* 1 .. bucket_count * capacity, the k-th item made by a fallback closure  *)
(* is bucket_count * capacity + k.  Handles are counted per item they hold *)
(* so that a duplicated item (two handles, or a handle and a bucket slot)  *)
(* is a state the model can represent.                                     *)
(***************************************************************************)
EXTENDS Integers, Sequences, FiniteSets

(***************************************************************************)
(* Bounds of the model.                                                    *)
(***************************************************************************)
MaxBuckets == 2
MaxCap == 2
MaxFallback == 1
MaxCtr == 6
MaxConcCtr == 3
MaxLockCtr == 2
MaxThreads == 2
MaxStrong == 2

\* Option::None for an Option<T> whose Some values are item numbers >= 1.
None == 0

MaxItems == MaxBuckets * MaxCap + MaxFallback
Items == 1..MaxItems
Threads == 1..MaxThreads

VARIABLES
    ctr_limit,      \* how far the run is explored: the cap on both counters
    granular,       \* whether taking a bucket's lock is a step of its own
    lock,           \* bucket index -> the thread inside its mutex, or 0
    bucket_count,   \* buckets.len(), fixed by MemPool::new
    capacity,       \* MemPool.capacity
    buckets,        \* MemPool.buckets: bucket index -> Vec<T> (a sequence of items)
    pull_ctr,       \* MemPool.pull_ctr
    insert_ctr,     \* MemPool.insert_ctr
    modifiable,     \* item -> number of live ModifiableMemShare with mem = Some(item)
    shareable,      \* item -> number of live ShareableMemShare with mem = Some(item)
    strong,         \* item -> strong count of the Arc<ShareableMemShare> holding it
    detached,       \* item -> number of times the raw item was handed out by detach
    discarded,      \* item -> number of times re_attach let the item be dropped
    made,           \* number of items made by fallback closures
    pc,             \* thread -> "idle" | "try_pull" | "pull_loop" | "re_attach"
    op,             \* thread -> the public operation it runs (kept after it returns)
    bucket,         \* thread -> local `bucket` (the start index)
    bucket_inc,     \* thread -> local `bucket_inc`
    mem,            \* thread -> local `mem` of re_attach (None outside of it)
    probes,         \* thread -> the bucket indexes locked so far by its operation
    ret,            \* thread -> item of the handle its last pull returned, or None
    stage,          \* item -> where its current lease stands (history)
    calls,          \* item -> number of re_attach calls in its current lease (history)
    peak,           \* item -> largest strong count its shared handle had (history)
    alone,          \* thread -> no other thread took a step during its operation
    last_start      \* start index of the most recent pull, -1 before the first (history)

config == <<ctr_limit, granular, bucket_count, capacity>>
pool_vars == <<config, buckets, pull_ctr, insert_ctr>>
handle_vars == <<modifiable, shareable, strong, detached, discarded, made>>
thread_vars == <<pc, op, bucket, bucket_inc, mem, probes, ret>>
ghost_vars == <<stage, calls, peak>>
vars == <<pool_vars, lock, handle_vars, thread_vars, ghost_vars, alone,
          last_start>>

BucketIdx == 0..(bucket_count - 1)

\* Number of slots of bucket b that hold item i.
RECURSIVE CountIn(_, _)
CountIn(vec, i) ==
    IF vec = <<>> THEN 0
    ELSE (IF Head(vec) = i THEN 1 ELSE 0) + CountIn(Tail(vec), i)

RECURSIVE SumOver(_, _)
SumOver(f, S) ==
    IF S = {} THEN 0
    ELSE LET x == CHOOSE y \in S : TRUE IN f[x] + SumOver(f, S \ {x})

InBuckets(i) == SumOver([b \in BucketIdx |-> CountIn(buckets[b], i)], BucketIdx)
InFlight(i) == Cardinality({t \in Threads : mem[t] = i})
TotalPooled == SumOver([b \in BucketIdx |-> Len(buckets[b])], BucketIdx)

(***************************************************************************)
(* MemPool::new: bucket_count buckets, each filled with capacity items     *)
(* made by init_fn; both counters start at 0.                              *)
(***************************************************************************)
new_bucket(b, cap) == [k \in 1..cap |-> b * cap + k]

Setup(limit) ==
    /\ ctr_limit = limit
    /\ bucket_count \in 1..MaxBuckets
    /\ capacity \in 0..MaxCap
    /\ buckets = [b \in BucketIdx |-> new_bucket(b, capacity)]
    /\ lock = [b \in BucketIdx |-> 0]
    /\ pull_ctr = 0
    /\ insert_ctr = 0
    /\ modifiable = [i \in Items |-> 0]
    /\ shareable = [i \in Items |-> 0]
    /\ strong = [i \in Items |-> 0]
    /\ detached = [i \in Items |-> 0]
    /\ discarded = [i \in Items |-> 0]
    /\ made = 0
    /\ pc = [t \in Threads |-> "idle"]
    /\ op = [t \in Threads |-> "none"]
    /\ bucket = [t \in Threads |-> 0]
    /\ bucket_inc = [t \in Threads |-> 0]
    /\ mem = [t \in Threads |-> None]
    /\ probes = [t \in Threads |-> <<>>]
    /\ ret = [t \in Threads |-> None]
    /\ stage = [i \in Items |->
                  IF i <= bucket_count * capacity THEN "pooled" ELSE "unmade"]
    /\ calls = [i \in Items |-> 0]
    /\ peak = [i \in Items |-> 0]
    /\ alone = [t \in Threads |-> TRUE]
    /\ last_start = -1

\* The pool shared by several threads, explored up to MaxConcCtr calls on
\* each counter; and the pool used by one thread, up to MaxCtr calls.
Init == Setup(MaxConcCtr) /\ granular = FALSE
SeqInit == Setup(MaxCtr) /\ granular = FALSE

\* History: a step of thread t disturbs every operation other threads are in
\* the middle of; t's own operation is undisturbed when it starts.
step_alone(t) ==
    [v \in Threads |->
       IF v = t
       THEN (IF pc[t] = "idle" \/ pc'[t] = "idle" THEN TRUE ELSE alone[t])
       ELSE pc[v] = "idle"]


(***************************************************************************)
(* The bucket mutexes.  A critical section (lock, one pop or one len and   *)
(* push, guard dropped) is short and touches one bucket, so it is one      *)
(* step; when `granular` holds, taking the lock is a step of its own and a *)
(* thread can be seen inside the mutex, keeping others out.                *)
(***************************************************************************)

\* Mutant: the guard is kept alive after the critical section.
unlock_leak(b) == lock

\* The MutexGuard of bucket b goes out of scope: the end of the block in
\* try_pull_from_bucket, the end of an iteration (or the break) in re_attach.
unlock(b) == [lock EXCEPT ![b] = 0]

\* Thread t is where the critical section of bucket b starts.
in_mutex(t, b) == lock[b] = (IF granular THEN t ELSE 0)

(***************************************************************************)
(* Pulling.                                                                *)
(***************************************************************************)

\* Mutant: reads the last element and leaves it in the vector.
try_pull_from_bucket_peek(b) ==
    LET vec == buckets[b] IN
    IF Len(vec) = 0
    THEN [mem |-> None, buckets |-> buckets]
    ELSE [mem |-> vec[Len(vec)], buckets |-> buckets]

\* MemPool::try_pull_from_bucket: lock the bucket, Vec::pop (the last
\* element, or None when the vector is empty), unlock.
try_pull_from_bucket(b) ==
    LET vec == buckets[b] IN
    IF Len(vec) = 0
    THEN [mem |-> None, buckets |-> buckets]
    ELSE [mem |-> vec[Len(vec)],
          buckets |-> [buckets EXCEPT ![b] = SubSeq(vec, 1, Len(vec) - 1)]]

\* Mutant: targets the bucket after the one the counter names.
pull_bucket_next(round_robin) == (round_robin + 1) % bucket_count

\* `round_robin % self.buckets.len()` of try_pull and try_pull_from_all_buckets.
pull_bucket(round_robin) == round_robin % bucket_count

\* `(bucket + bucket_inc) % bucket_len` of both probe loops.
final_bucket(t) == (bucket[t] + bucket_inc[t]) % bucket_count

\* Mutant: the bound that the loop of re_attach has, one iteration more.
pull_loop_exit_gt(inc) == inc > bucket_count

\* Mutant: the loop gives up after the first bucket it found empty.
pull_loop_exit_first(inc) == inc >= 1

\* `if bucket_inc >= bucket_len { break; }` of try_pull_from_all_buckets.
pull_loop_exit(inc) == inc >= bucket_count

\* Mutant: the popped item is not wrapped in a handle and gets lost.
hand_out_lost(t, m) ==
    /\ modifiable' = modifiable
    /\ stage' = [stage EXCEPT ![m] = "modifiable"]
    /\ ret' = [ret EXCEPT ![t] = m]
    /\ pc' = [pc EXCEPT ![t] = "idle"]

\* A pull returns Some(ModifiableMemShare { mem: Some(m) }).
hand_out(t, m) ==
    /\ modifiable' = [modifiable EXCEPT ![m] = @ + 1]
    /\ stage' = [stage EXCEPT ![m] = "modifiable"]
    /\ ret' = [ret EXCEPT ![t] = m]
    /\ pc' = [pc EXCEPT ![t] = "idle"]

\* The entry of the three public pulls: pull_ctr.fetch_add(1) and the start
\* index.  `next` is where the thread continues.
pull_entry(t, name, next) ==
    /\ pc[t] = "idle"
    /\ pull_ctr < ctr_limit
    /\ LET round_robin == pull_ctr IN
         /\ pull_ctr' = pull_ctr + 1
         /\ bucket' = [bucket EXCEPT ![t] = pull_bucket(round_robin)]
         /\ last_start' = pull_bucket(round_robin)
    /\ bucket_inc' = [bucket_inc EXCEPT ![t] = 0]
    /\ pc' = [pc EXCEPT ![t] = next]
    /\ op' = [op EXCEPT ![t] = name]
    /\ probes' = [probes EXCEPT ![t] = <<>>]
    /\ ret' = [ret EXCEPT ![t] = None]
    /\ alone' = step_alone(t)
    /\ UNCHANGED <<config, lock, buckets, insert_ctr, handle_vars,
                   mem, ghost_vars>>

\* try_pull, up to the call of try_pull_from_bucket.
try_pull(t) == pull_entry(t, "try_pull", "try_pull")

\* try_pull: `self.try_pull_from_bucket(bucket)` and the return.
try_pull_bucket(t) ==
    /\ pc[t] = "try_pull"
    /\ in_mutex(t, bucket[t])
    /\ LET r == try_pull_from_bucket(bucket[t]) IN
         /\ buckets' = r.buckets
         /\ lock' = unlock(bucket[t])
         /\ probes' = [probes EXCEPT ![t] = Append(@, bucket[t])]
         /\ IF r.mem # None
            THEN hand_out(t, r.mem)
            ELSE /\ pc' = [pc EXCEPT ![t] = "idle"]
                 /\ UNCHANGED <<modifiable, stage, ret>>
    /\ alone' = step_alone(t)
    /\ UNCHANGED <<last_start, config, pull_ctr, insert_ctr, shareable,
                   strong, detached, discarded, made, op, bucket, bucket_inc,
                   mem, calls, peak>>

\* try_pull_from_all_buckets, up to the loop.
try_pull_from_all_buckets(t) ==
    pull_entry(t, "try_pull_from_all_buckets", "pull_loop")

\* The fallback items not yet made but already owed to a running call.
FallbackPending ==
    Cardinality({u \in Threads :
                   pc[u] = "pull_loop" /\ op[u] = "pull_with_fallback"})

\* pull_with_fallback, up to the loop of the try_pull_from_all_buckets it calls.
pull_with_fallback(t) ==
    /\ made + FallbackPending < MaxFallback
    /\ pull_entry(t, "pull_with_fallback", "pull_loop")

\* One iteration of the loop of try_pull_from_all_buckets that probes a bucket.
pull_loop_probe(t) ==
    /\ pc[t] = "pull_loop"
    /\ ~pull_loop_exit(bucket_inc[t])
    /\ in_mutex(t, final_bucket(t))
    /\ LET r == try_pull_from_bucket(final_bucket(t)) IN
         /\ buckets' = r.buckets
         /\ lock' = unlock(final_bucket(t))
         /\ probes' = [probes EXCEPT ![t] = Append(@, final_bucket(t))]
         /\ IF r.mem # None
            THEN /\ hand_out(t, r.mem)
                 /\ UNCHANGED bucket_inc
            ELSE /\ bucket_inc' = [bucket_inc EXCEPT ![t] = @ + 1]
                 /\ UNCHANGED <<modifiable, stage, ret, pc>>
    /\ alone' = step_alone(t)
    /\ UNCHANGED <<last_start, config, pull_ctr, insert_ctr, shareable,
                   strong, detached, discarded, made, op, bucket, mem, calls,
                   peak>>

\* The loop breaks and try_pull_from_all_buckets returns None to its caller.
pull_loop_none(t) ==
    /\ pc[t] = "pull_loop"
    /\ op[t] = "try_pull_from_all_buckets"
    /\ pull_loop_exit(bucket_inc[t])
    /\ pc' = [pc EXCEPT ![t] = "idle"]
    /\ alone' = step_alone(t)
    /\ UNCHANGED <<last_start, lock, pool_vars, handle_vars, op, bucket, bucket_inc,
                   mem, probes, ret, ghost_vars>>

\* The loop breaks inside pull_with_fallback: the None arm calls fallback()
\* and wraps the new item.
pull_loop_fallback(t) ==
    /\ pc[t] = "pull_loop"
    /\ op[t] = "pull_with_fallback"
    /\ pull_loop_exit(bucket_inc[t])
    /\ made' = made + 1
    /\ hand_out(t, bucket_count * capacity + made + 1)
    /\ alone' = step_alone(t)
    /\ UNCHANGED <<last_start, lock, pool_vars, shareable, strong, detached,
                   discarded, op,
                   bucket, bucket_inc, mem, probes, calls, peak>>

(***************************************************************************)
(* Returning.                                                              *)
(***************************************************************************)

\* Mutant: starts at the bucket after the one the counter names.
insert_bucket_next(round_robin) == (round_robin + 1) % bucket_count

\* `round_robin % bucket_len` of re_attach.
insert_bucket(round_robin) == round_robin % bucket_count

\* Mutant: gives up after the first bucket found at capacity.
re_attach_exit_first(inc) == inc >= 1

\* `if bucket_inc > bucket_len { break; }` of re_attach.
re_attach_exit(inc) == inc > bucket_count

\* Mutant: a bucket at capacity still takes an item.
bucket_full_gt(b) == Len(buckets[b]) > capacity

\* `bucket_guard.len() >= self.capacity` of re_attach.
bucket_full(b) == Len(buckets[b]) >= capacity

\* Mutant: the counter is read (load) and not incremented.
re_attach_load(t, m, name) ==
    /\ insert_ctr < ctr_limit
    /\ LET round_robin == insert_ctr IN
         /\ insert_ctr' = insert_ctr
         /\ bucket' = [bucket EXCEPT ![t] = insert_bucket(round_robin)]
    /\ bucket_inc' = [bucket_inc EXCEPT ![t] = 0]
    /\ mem' = [mem EXCEPT ![t] = m]
    /\ pc' = [pc EXCEPT ![t] = "re_attach"]
    /\ op' = [op EXCEPT ![t] = name]
    /\ probes' = [probes EXCEPT ![t] = <<>>]
    /\ ret' = [ret EXCEPT ![t] = None]
    /\ calls' = [calls EXCEPT ![m] = @ + 1]

\* The entry of re_attach(mem): insert_ctr.fetch_add(1) and the start index.
re_attach(t, m, name) ==
    /\ insert_ctr < ctr_limit
    /\ LET round_robin == insert_ctr IN
         /\ insert_ctr' = insert_ctr + 1
         /\ bucket' = [bucket EXCEPT ![t] = insert_bucket(round_robin)]
    /\ bucket_inc' = [bucket_inc EXCEPT ![t] = 0]
    /\ mem' = [mem EXCEPT ![t] = m]
    /\ pc' = [pc EXCEPT ![t] = "re_attach"]
    /\ op' = [op EXCEPT ![t] = name]
    /\ probes' = [probes EXCEPT ![t] = <<>>]
    /\ ret' = [ret EXCEPT ![t] = None]
    /\ calls' = [calls EXCEPT ![m] = @ + 1]

\* Mutants: the destructor forgets to re-attach.
Drop_ModifiableMemShare_forget(self_mem) == None
Drop_ShareableMemShare_forget(self_mem) == None

\* Drop for ModifiableMemShare on a handle whose field is self_mem:
\* `self.mem.take()`, and the item handed to re_attach (None: no call).
Drop_ModifiableMemShare(self_mem) == IF self_mem # None THEN self_mem ELSE None

\* Drop for ShareableMemShare, likewise.
Drop_ShareableMemShare(self_mem) == IF self_mem # None THEN self_mem ELSE None

\* The destructor of a handle runs in thread t and hands `m` to re_attach,
\* or does nothing when it found its field empty.
run_drop(t, m, name) ==
    IF m # None
    THEN re_attach(t, m, name)
    ELSE UNCHANGED <<insert_ctr, thread_vars, calls>>

\* One iteration of the loop of re_attach that locks a bucket.
re_attach_probe(t) ==
    /\ pc[t] = "re_attach"
    /\ ~re_attach_exit(bucket_inc[t])
    /\ in_mutex(t, final_bucket(t))
    /\ LET b == final_bucket(t)
           m == mem[t] IN
         /\ probes' = [probes EXCEPT ![t] = Append(@, b)]
         /\ lock' = unlock(b)
         /\ IF bucket_full(b)
            THEN /\ bucket_inc' = [bucket_inc EXCEPT ![t] = @ + 1]
                 /\ UNCHANGED <<buckets, mem, pc, stage, calls, peak>>
            ELSE /\ buckets' = [buckets EXCEPT ![b] = Append(@, m)]
                 /\ mem' = [mem EXCEPT ![t] = None]
                 /\ pc' = [pc EXCEPT ![t] = "idle"]
                 /\ stage' = [stage EXCEPT ![m] = "pooled"]
                 /\ calls' = [calls EXCEPT ![m] = 0]
                 /\ peak' = [peak EXCEPT ![m] = 0]
                 /\ UNCHANGED bucket_inc
    /\ alone' = step_alone(t)
    /\ UNCHANGED <<last_start, config, pull_ctr, insert_ctr, handle_vars,
                   op, bucket, ret>>

\* Mutant: an item that found no room is pushed onto its start bucket anyway.
re_attach_discard_push(t) ==
    /\ pc[t] = "re_attach"
    /\ re_attach_exit(bucket_inc[t])
    /\ buckets' = [buckets EXCEPT ![bucket[t]] = Append(@, mem[t])]
    /\ mem' = [mem EXCEPT ![t] = None]
    /\ pc' = [pc EXCEPT ![t] = "idle"]
    /\ alone' = step_alone(t)
    /\ UNCHANGED <<last_start, lock, config, pull_ctr, insert_ctr, handle_vars,
                   op, bucket, bucket_inc, probes, ret, ghost_vars>>

\* The loop of re_attach breaks without a push: `mem` is dropped at the end
\* of the function.
re_attach_discard(t) ==
    /\ pc[t] = "re_attach"
    /\ re_attach_exit(bucket_inc[t])
    /\ discarded' = [discarded EXCEPT ![mem[t]] = @ + 1]
    /\ mem' = [mem EXCEPT ![t] = None]
    /\ pc' = [pc EXCEPT ![t] = "idle"]
    /\ alone' = step_alone(t)
    /\ UNCHANGED <<last_start, lock, pool_vars, modifiable, shareable, strong,
                   detached, made,
                   op, bucket, bucket_inc, probes, ret, ghost_vars>>

(***************************************************************************)
(* Taking a bucket's lock as a step of its own.                            *)
(***************************************************************************)

\* Thread t stands before the `lock()` of try_pull_from_bucket or of an
\* iteration of re_attach.
at_lock(t) ==
    \/ pc[t] = "try_pull"
    \/ pc[t] = "pull_loop" /\ ~pull_loop_exit(bucket_inc[t])
    \/ pc[t] = "re_attach" /\ ~re_attach_exit(bucket_inc[t])

\* The bucket whose mutex thread t locks next, given where it stands.
target(t) == IF pc[t] = "try_pull" THEN bucket[t] ELSE final_bucket(t)

\* `self.buckets[..].lock().unwrap()`: the thread gets the mutex when no
\* thread is inside it, and waits otherwise.
lock_bucket(t) ==
    /\ granular
    /\ at_lock(t)
    /\ lock[target(t)] = 0
    /\ lock' = [lock EXCEPT ![target(t)] = t]
    /\ UNCHANGED <<last_start, pool_vars, handle_vars, thread_vars, ghost_vars>>
    /\ alone' = step_alone(t)

\* The steps of thread t inside an operation that need no lock to be taken.
in_operation(t) ==
    \/ try_pull_bucket(t)
    \/ pull_loop_probe(t)
    \/ pull_loop_none(t)
    \/ pull_loop_fallback(t)
    \/ re_attach_probe(t)
    \/ re_attach_discard(t)

(***************************************************************************)
(* Handles.                                                                *)
(***************************************************************************)

\* Mutants: the item is copied out of the field instead of taken.
freeze_left_kept(m) == m
detach_left_kept(m) == m

\* What `self.mem.take()` leaves in the field of the handle that freeze,
\* detach and unfreeze consume, and that is dropped when they return.
freeze_left(m) == None
detach_left(m) == None
unfreeze_left(m) == None
detach_shared_left(m) == None

\* A live ModifiableMemShare holding item i goes out of scope.
drop_modifiable(t, i) ==
    /\ pc[t] = "idle"
    /\ modifiable[i] > 0
    /\ modifiable' = [modifiable EXCEPT ![i] = @ - 1]
    /\ stage' = [stage EXCEPT ![i] = "dropped"]
    /\ run_drop(t, Drop_ModifiableMemShare(i), "drop")
    /\ alone' = step_alone(t)
    /\ UNCHANGED <<last_start, lock, config, buckets, pull_ctr, shareable,
                   strong, detached, discarded, made, peak>>

\* ModifiableMemShare::freeze: the item moves into a new
\* Arc<ShareableMemShare> (strong count 1); the consumed handle is dropped.
freeze(t, i) ==
    /\ pc[t] = "idle"
    /\ modifiable[i] > 0
    /\ modifiable' = [modifiable EXCEPT ![i] = @ - 1]
    /\ shareable' = [shareable EXCEPT ![i] = @ + 1]
    /\ strong' = [strong EXCEPT ![i] = @ + 1]
    /\ stage' = [stage EXCEPT ![i] = "frozen"]
    /\ peak' = [peak EXCEPT ![i] = 1]
    /\ run_drop(t, Drop_ModifiableMemShare(freeze_left(i)), "freeze")
    /\ alone' = step_alone(t)
    /\ UNCHANGED <<last_start, lock, config, buckets, pull_ctr, detached,
                   discarded, made>>

\* PooledMem::detach for ModifiableMemShare: the raw item goes to the caller;
\* the consumed handle is dropped.
detach(t, i) ==
    /\ pc[t] = "idle"
    /\ modifiable[i] > 0
    /\ modifiable' = [modifiable EXCEPT ![i] = @ - 1]
    /\ detached' = [detached EXCEPT ![i] = @ + 1]
    /\ stage' = [stage EXCEPT ![i] = "detached"]
    /\ run_drop(t, Drop_ModifiableMemShare(detach_left(i)), "detach")
    /\ alone' = step_alone(t)
    /\ UNCHANGED <<last_start, lock, config, buckets, pull_ctr, shareable,
                   strong, discarded, made, peak>>

\* Arc::clone of the shared handle of item i.
clone(t, i) ==
    /\ pc[t] = "idle"
    /\ strong[i] >= 1
    /\ strong[i] < MaxStrong
    /\ strong' = [strong EXCEPT ![i] = @ + 1]
    /\ peak' = [peak EXCEPT ![i] = IF strong[i] + 1 > @ THEN strong[i] + 1 ELSE @]
    /\ alone' = step_alone(t)
    /\ UNCHANGED <<last_start, lock, pool_vars, modifiable, shareable, detached,
                   discarded, made,
                   thread_vars, stage, calls>>

\* Mutant: every owner's drop runs Drop for ShareableMemShare.
drop_shareable_every(t, i) ==
    /\ pc[t] = "idle"
    /\ strong[i] >= 1
    /\ strong' = [strong EXCEPT ![i] = @ - 1]
    /\ shareable' = [shareable EXCEPT ![i] = IF strong[i] = 1 THEN @ - 1 ELSE @]
    /\ stage' = [stage EXCEPT ![i] = IF strong[i] = 1 THEN "released" ELSE @]
    /\ run_drop(t, Drop_ShareableMemShare(i), "drop_shared")
    /\ alone' = step_alone(t)
    /\ UNCHANGED <<last_start, lock, config, buckets, pull_ctr, modifiable,
                   detached, discarded, made, peak>>

\* One Arc<ShareableMemShare> of item i goes out of scope: the strong count
\* is decremented, and the thread that brings it to 0 runs
\* Drop for ShareableMemShare.
drop_shareable(t, i) ==
    /\ pc[t] = "idle"
    /\ strong[i] >= 1
    /\ strong' = [strong EXCEPT ![i] = @ - 1]
    /\ IF strong[i] = 1
       THEN /\ shareable' = [shareable EXCEPT ![i] = @ - 1]
            /\ stage' = [stage EXCEPT ![i] = "released"]
            /\ run_drop(t, Drop_ShareableMemShare(i), "drop_shared")
       ELSE UNCHANGED <<shareable, stage, insert_ctr, thread_vars, calls>>
    /\ alone' = step_alone(t)
    /\ UNCHANGED <<last_start, lock, config, buckets, pull_ctr, modifiable,
                   detached, discarded, made, peak>>

\* Mutant: any owner of the Arc gets at the ShareableMemShare inside it.
sole_owner_any(i) == strong[i] >= 1

\* unfreeze and detach take the ShareableMemShare by value (`mut self`), and
\* freeze hands out only Arc<ShareableMemShare>: the value comes out of the
\* Arc for its sole owner and for nobody else (Arc::try_unwrap).
sole_owner(i) == strong[i] = 1

\* ShareableMemShare::unfreeze, by the sole owner of the Arc.
unfreeze(t, i) ==
    /\ pc[t] = "idle"
    /\ sole_owner(i)
    /\ strong' = [strong EXCEPT ![i] = 0]
    /\ shareable' = [shareable EXCEPT ![i] = @ - 1]
    /\ modifiable' = [modifiable EXCEPT ![i] = @ + 1]
    /\ stage' = [stage EXCEPT ![i] = "modifiable"]
    /\ peak' = [peak EXCEPT ![i] = 0]
    /\ run_drop(t, Drop_ShareableMemShare(unfreeze_left(i)), "unfreeze")
    /\ alone' = step_alone(t)
    /\ UNCHANGED <<last_start, lock, config, buckets, pull_ctr, detached,
                   discarded, made>>

\* PooledMem::detach for ShareableMemShare, by value like unfreeze.
detach_shared(t, i) ==
    /\ pc[t] = "idle"
    /\ sole_owner(i)
    /\ strong' = [strong EXCEPT ![i] = 0]
    /\ shareable' = [shareable EXCEPT ![i] = @ - 1]
    /\ detached' = [detached EXCEPT ![i] = @ + 1]
    /\ stage' = [stage EXCEPT ![i] = "detached"]
    /\ peak' = [peak EXCEPT ![i] = 0]
    /\ run_drop(t, Drop_ShareableMemShare(detach_shared_left(i)), "detach")
    /\ alone' = step_alone(t)
    /\ UNCHANGED <<last_start, lock, config, buckets, pull_ctr, modifiable,
                   discarded, made>>

\* An owner of a shared handle that has other owners asks for unfreeze: the
\* Arc does not give up the ShareableMemShare (Err(arc), an ownership error
\* at the call site), unfreeze is not entered and the owner keeps its Arc.
unfreeze_refused(t, i) ==
    /\ pc[t] = "idle"
    /\ strong[i] >= 1
    /\ ~sole_owner(i)
    /\ op' = [op EXCEPT ![t] = "unfreeze_refused"]
    /\ ret' = [ret EXCEPT ![t] = None]
    /\ probes' = [probes EXCEPT ![t] = <<>>]
    /\ alone' = step_alone(t)
    /\ UNCHANGED <<last_start, lock, pool_vars, handle_vars, pc, bucket, bucket_inc,
                   mem, ghost_vars>>

(***************************************************************************)
(* Specifications.                                                         *)
(***************************************************************************)
Step(t) ==
    \/ try_pull(t)
    \/ try_pull_bucket(t)
    \/ try_pull_from_all_buckets(t)
    \/ pull_with_fallback(t)
    \/ pull_loop_probe(t)
    \/ pull_loop_none(t)
    \/ pull_loop_fallback(t)
    \/ re_attach_probe(t)
    \/ re_attach_discard(t)
    \/ \E i \in Items :
         \/ drop_modifiable(t, i)
         \/ freeze(t, i)
         \/ detach(t, i)
         \/ clone(t, i)
         \/ drop_shareable(t, i)
         \/ unfreeze(t, i)
         \/ unfreeze_refused(t, i)
         \/ detach_shared(t, i)

\* Any number of threads (up to MaxThreads) share the pool.
Next == \E t \in Threads : Step(t)

Spec == Init /\ [][Next]_vars

\* A single thread uses the pool.
SeqNext == Step(1)

SeqSpec == SeqInit /\ [][SeqNext]_vars

\* The threads share the pool and are seen taking the locks.  A thread that
\* is inside an operation keeps running, and a thread that asks for a mutex
\* again and again while it is free again and again gets it.
LockInit == Setup(MaxLockCtr) /\ granular = TRUE

LockNext == \E t \in Threads : Step(t) \/ lock_bucket(t)

LockSpec ==
    /\ LockInit
    /\ [][LockNext]_vars
    /\ \A t \in Threads : WF_vars(in_operation(t)) /\ SF_vars(lock_bucket(t))


(***************************************************************************)
(* Vocabulary of the properties.                                           *)
(***************************************************************************)
Last(vec) == vec[Len(vec)]
Front(vec) == SubSeq(vec, 1, Len(vec) - 1)

\* Items out of the pool under the pool's management: held by a live handle
\* or in the hands of a re_attach that has not finished.
Outstanding ==
    SumOver([i \in Items |-> modifiable[i] + shareable[i] + InFlight(i)], Items)

\* The places an item is in, counted with multiplicity.  An item being
\* re-attached counts as held: the release of its handle is in progress.
Places(i) ==
    InBuckets(i) + modifiable[i] + shareable[i] + InFlight(i)
        + detached[i] + discarded[i]

\* Item i has been constructed (by MemPool::new or by a fallback).
Built(i) == i <= bucket_count * capacity + made

\* InBuckets(i) in the state a step leads to.
InBucketsNext(i) ==
    SumOver([b \in BucketIdx |-> CountIn(buckets'[b], i)], BucketIdx)

NoFallback == made = 0 /\ FallbackPending = 0
NoDetach == \A i \in Items : detached[i] = 0
NoDiscard == \A i \in Items : discarded[i] = 0
Quiet == \A t \in Threads : pc[t] = "idle"
OthersIdle(t) == \A u \in Threads \ {t} : pc[u] = "idle"
Returns(t) == pc[t] # "idle" /\ pc'[t] = "idle"

(***************************************************************************)
(* C1: Capacity invariant.  In every reachable state, whatever the         *)
(* interleaving of pulls, fallbacks, drops, freezes, clones and detaches,  *)
(* every bucket holds at most `capacity` items.                            *)
(***************************************************************************)
CapacityInvariant == \A b \in BucketIdx : Len(buckets[b]) <= capacity

\* A re_attach has met a bucket at capacity and moved on, with every bucket
\* at capacity.
CapacityWitness ==
    /\ capacity >= 1
    /\ \A b \in BucketIdx : Len(buckets[b]) = capacity
    /\ \E t \in Threads : pc[t] = "re_attach" /\ bucket_inc[t] >= 1

(***************************************************************************)
(* C2: Exclusivity.  In every reachable state each constructed item is in  *)
(* exactly one place: one slot of one bucket, one exclusive handle, one    *)
(* shared handle family (a ShareableMemShare with at least one Arc),       *)
(* detached, or discarded; an item not yet constructed is nowhere.  So no  *)
(* two handles hold the same item and no held item is in a bucket.         *)
(***************************************************************************)
Exclusivity ==
    \A i \in Items :
        /\ Places(i) = (IF Built(i) THEN 1 ELSE 0)
        /\ (shareable[i] = 1) <=> (strong[i] >= 1)

\* Two threads have each pulled from the same bucket and hold different
\* items.
ExclusivityWitness ==
    \E t, u \in Threads :
        /\ t # u
        /\ pc[t] = "idle" /\ pc[u] = "idle"
        /\ ret[t] # None /\ ret[u] # None /\ ret[t] # ret[u]
        /\ modifiable[ret[t]] = 1 /\ modifiable[ret[u]] = 1
        /\ Len(probes[t]) = 1 /\ probes[t] = probes[u]

(***************************************************************************)
(* C3: Exactly-once return of a shared item.  While any Arc of a frozen    *)
(* item is alive re_attach has not been called for it; the drop that takes *)
(* the strong count from 1 to 0, and no other step, calls re_attach for    *)
(* it, in the dropping thread; once all owners are released it has been    *)
(* called exactly once.                                                    *)
(***************************************************************************)
SharedReturnState ==
    \A i \in Items :
        /\ calls[i] <= 1
        /\ stage[i] = "frozen" =>
              strong[i] >= 1 /\ shareable[i] = 1 /\ calls[i] = 0
        /\ stage[i] = "released" =>
              strong[i] = 0 /\ shareable[i] = 0 /\ calls[i] = 1

SharedReturnStep ==
    \A i \in Items :
        stage[i] = "frozen" =>
            /\ (calls'[i] = calls[i] + 1) <=>
                   (strong[i] = 1 /\ stage'[i] = "released")
            /\ stage'[i] = "released" =>
                   \E t \in Threads :
                       pc[t] = "idle" /\ pc'[t] = "re_attach" /\ mem'[t] = i
            /\ strong[i] > 1 /\ strong'[i] < strong[i] =>
                   stage'[i] = "frozen" /\ mem' = mem

ExactlyOnceReturn == []SharedReturnState /\ [][SharedReturnStep]_vars

\* A shared handle that had a clone has lost all its owners, and its item is
\* in the hands of the one re_attach called for it.
ExactlyOnceWitness ==
    \E i \in Items :
        /\ stage[i] = "released" /\ peak[i] >= 2
        /\ calls[i] = 1 /\ InFlight(i) = 1

(***************************************************************************)
(* C4: A frozen item stays out of the pool while any owner lives.  As      *)
(* claimed: while the strong count of its shared handle is at least 1 the  *)
(* item is in no bucket and no pull returns it; and when the re_attach run *)
(* by the release of the last owner ends while some bucket has room, the   *)
(* item is in a bucket.                                                    *)
(***************************************************************************)
FrozenOut ==
    \A i \in Items :
        strong[i] >= 1 =>
            InBuckets(i) = 0 /\ InFlight(i) = 0 /\ modifiable[i] = 0

FrozenPullStep ==
    \A t \in Threads :
        (pc[t] \in {"try_pull", "pull_loop"} /\ Returns(t) /\ ret'[t] # None)
            => strong[ret'[t]] = 0

FrozenReturnStep ==
    \A t \in Threads : \A i \in Items :
        (/\ pc[t] = "re_attach" /\ Returns(t)
         /\ op[t] = "drop_shared" /\ mem[t] = i
         /\ \E b \in BucketIdx : Len(buckets[b]) < capacity) =>
            InBucketsNext(i) = 1

FrozenReturnsWithRoom ==
    []FrozenOut /\ [][FrozenPullStep /\ FrozenReturnStep]_vars

(***************************************************************************)
(* C4, amended: while the strong count of its shared handle is at least 1  *)
(* the item is in no bucket and no pull returns it.  When the re_attach    *)
(* run by the release of the last owner ends, the item is in a bucket or   *)
(* was discarded; it is discarded only after that re_attach locked every   *)
(* bucket and found each at capacity at the moment it locked it            *)
(* (bucket_count + 1 locks), which with steps of other threads in between  *)
(* happens although some bucket has room; when no other thread took a step *)
(* during that re_attach, the item is discarded only if every bucket is at *)
(* capacity.                                                               *)
(***************************************************************************)
FrozenStep ==
    \A t \in Threads :
        /\ (pc[t] \in {"try_pull", "pull_loop"} /\ Returns(t) /\ ret'[t] # None)
               => strong[ret'[t]] = 0
        /\ \A i \in Items :
             (/\ pc[t] = "re_attach" /\ Returns(t)
              /\ op[t] = "drop_shared" /\ mem[t] = i) =>
               \/ /\ InBucketsNext(i) = 1
                  /\ discarded'[i] = 0
               \/ /\ InBucketsNext(i) = 0
                  /\ discarded'[i] = 1
                  /\ Len(probes[t]) = bucket_count + 1
                  /\ {probes[t][k] : k \in 1..Len(probes[t])} = BucketIdx
                  /\ alone[t] => \A b \in BucketIdx : Len(buckets[b]) >= capacity

FrozenStaysOut == []FrozenOut /\ [][FrozenStep]_vars

\* The last owner of a frozen item was released and its re_attach has ended:
\* the item was discarded, and a bucket has room.
FrozenWitness ==
    \E t \in Threads : \E i \in Items :
        /\ op[t] = "drop_shared" /\ pc[t] = "idle"
        /\ stage[i] = "released" /\ strong[i] = 0
        /\ discarded[i] = 1 /\ InBuckets(i) = 0
        /\ \E b \in BucketIdx : Len(buckets[b]) < capacity

(***************************************************************************)
(* C5: Exclusive handle lifecycle.  An item is held by at most one         *)
(* exclusive handle, and it leaves it by exactly one of drop, detach and   *)
(* freeze: re_attach has been called for it exactly once when the handle   *)
(* was dropped, and not at all while the handle lives or after it was      *)
(* detached or frozen.                                                     *)
(***************************************************************************)
ExclusiveLifecycle ==
    \A i \in Items :
        /\ modifiable[i] <= 1
        /\ (modifiable[i] = 1) <=> (stage[i] = "modifiable")
        /\ stage[i] \in {"modifiable", "detached", "frozen"} => calls[i] = 0
        /\ stage[i] = "dropped" =>
              /\ calls[i] = 1
              /\ InFlight(i) + discarded[i] = 1

\* Three items whose exclusive handles ended in the three ways.
LifecycleWitness ==
    \E i, j, k \in Items :
        /\ stage[i] = "dropped"
        /\ stage[j] = "detached"
        /\ stage[k] = "frozen"

(***************************************************************************)
(* C6: Detach finality.  A detached item is never handed to re_attach, is  *)
(* in no bucket and in no handle in every later state, and no pull         *)
(* returns it.                                                             *)
(***************************************************************************)
DetachedState ==
    \A i \in Items :
        detached[i] >= 1 =>
            /\ InBuckets(i) = 0 /\ InFlight(i) = 0
            /\ modifiable[i] = 0 /\ shareable[i] = 0
            /\ calls[i] = 0

DetachedStep ==
    \A i \in Items :
        detached[i] >= 1 =>
            /\ detached'[i] = detached[i]
            /\ calls'[i] = 0
            /\ \A t \in Threads : Returns(t) => ret'[t] # i

DetachFinality == []DetachedState /\ [][DetachedStep]_vars

\* An item is detached and a probe of every bucket has come back empty.
DetachWitness ==
    /\ \E i \in Items : detached[i] = 1
    /\ \E t \in Threads :
          /\ op[t] = "try_pull_from_all_buckets" /\ pc[t] = "idle"
          /\ ret[t] = None
    /\ NoFallback

(***************************************************************************)
(* C7: Pull/drop round trip on a single bucket.  With one bucket of        *)
(* capacity c, no fallback and no detach: when no operation is in progress *)
(* the bucket holds c minus the number of outstanding handles, and a       *)
(* try_pull that ends while no other operation is in progress returns a    *)
(* handle if and only if fewer than c handles are outstanding.             *)
(***************************************************************************)
SingleBucket == bucket_count = 1 /\ NoFallback /\ NoDetach

RoundTripState ==
    (SingleBucket /\ Quiet) => Len(buckets[0]) = capacity - Outstanding

RoundTripStep ==
    \A t \in Threads :
        (SingleBucket /\ pc[t] = "try_pull" /\ Returns(t) /\ OthersIdle(t)) =>
            ((ret'[t] # None) <=> (Outstanding < capacity))

PullDropRoundTrip == []RoundTripState /\ [][RoundTripStep]_vars

\* One bucket of capacity 1: three pulls and one drop have happened, and
\* the last try_pull returned the item again.
RoundTripWitness ==
    /\ bucket_count = 1 /\ capacity = 1 /\ NoFallback /\ NoDetach
    /\ pull_ctr = 3 /\ insert_ctr = 1
    /\ \E t \in Threads :
          /\ op[t] = "try_pull" /\ pc[t] = "idle" /\ ret[t] = 1
          /\ OthersIdle(t)
    /\ modifiable[1] = 1

(***************************************************************************)
(* C8: Full drain and refill by a single thread.  With no fallback and no  *)
(* detach, re_attach discards nothing; when the thread is between          *)
(* operations the buckets hold all items that are not outstanding, so with *)
(* no handle outstanding every bucket holds exactly c items; and           *)
(* try_pull_from_all_buckets returns empty if and only if all              *)
(* bucket_count * c items are outstanding.                                 *)
(***************************************************************************)
DrainRefillState ==
    (NoFallback /\ NoDetach) =>
        /\ NoDiscard
        /\ pc[1] = "idle" =>
              /\ TotalPooled = bucket_count * capacity - Outstanding
              /\ Outstanding = 0 =>
                    \A b \in BucketIdx : Len(buckets[b]) = capacity

DrainRefillStep ==
    (/\ NoFallback /\ NoDetach
     /\ pc[1] = "pull_loop" /\ Returns(1)
     /\ op[1] = "try_pull_from_all_buckets") =>
        ((ret'[1] = None) <=> (Outstanding = bucket_count * capacity))

DrainRefill == []DrainRefillState /\ [][DrainRefillStep]_vars

\* Two buckets of capacity 1, Scenario B: two pulls drained the pool, a third
\* came back empty, both items were dropped, two more pulls succeeded and
\* the sixth has just come back empty.
DrainRefillWitness ==
    /\ bucket_count = 2 /\ capacity = 1 /\ NoFallback /\ NoDetach
    /\ pull_ctr = 6 /\ insert_ctr = 2
    /\ op[1] = "try_pull_from_all_buckets" /\ pc[1] = "idle"
    /\ ret[1] = None
    /\ Outstanding = 2 /\ TotalPooled = 0

(***************************************************************************)
(* C9: try_pull is a single-bucket operation.  It increments pull_ctr by   *)
(* one, targets bucket (old pull_ctr % bucket_count), pops from that       *)
(* bucket only and returns a handle iff that bucket was non-empty; on an   *)
(* empty bucket it returns None and leaves every bucket unchanged.         *)
(***************************************************************************)
SinglePullStep ==
    \A t \in Threads :
        /\ (pc[t] = "idle" /\ pc'[t] = "try_pull") =>
               /\ pull_ctr' = pull_ctr + 1
               /\ bucket'[t] = pull_ctr % bucket_count
               /\ buckets' = buckets
        /\ pc[t] = "try_pull" =>
               /\ bucket'[t] = bucket[t]
               /\ pc'[t] \in {"try_pull", "idle"}
        /\ (pc[t] = "try_pull" /\ Returns(t)) =>
               /\ probes'[t] = <<bucket[t]>>
               /\ pull_ctr' = pull_ctr
               /\ \A b \in BucketIdx \ {bucket[t]} : buckets'[b] = buckets[b]
               /\ IF buckets[bucket[t]] = <<>>
                  THEN /\ ret'[t] = None
                       /\ buckets' = buckets
                       /\ modifiable' = modifiable
                  ELSE /\ ret'[t] = Last(buckets[bucket[t]])
                       /\ buckets'[bucket[t]] = Front(buckets[bucket[t]])
                       /\ modifiable'[ret'[t]] = modifiable[ret'[t]] + 1

SinglePull == [][SinglePullStep]_vars

\* A try_pull came back empty from its bucket while another bucket holds
\* an item.
SinglePullWitness ==
    \E t \in Threads :
        /\ op[t] = "try_pull" /\ pc[t] = "idle" /\ ret[t] = None
        /\ Len(probes[t]) = 1
        /\ buckets[probes[t][1]] = <<>>
        /\ \E b \in BucketIdx : buckets[b] # <<>>

(***************************************************************************)
(* C10: try_pull_from_all_buckets probes each bucket at most once, in      *)
(* wrapping order from (old pull_ctr % bucket_count), takes the item of    *)
(* the first bucket it finds non-empty and stops there, and returns None   *)
(* only after it found all bucket_count buckets empty; when no other       *)
(* thread takes a step during the call it returns a handle iff some        *)
(* bucket is non-empty.                                                    *)
(***************************************************************************)
AllBucketsOp(t) ==
    op[t] \in {"try_pull_from_all_buckets", "pull_with_fallback"}

AllBucketsState ==
    \A t \in Threads :
        AllBucketsOp(t) =>
            /\ Len(probes[t]) <= bucket_count
            /\ \A k \in 1..Len(probes[t]) :
                  probes[t][k] = (bucket[t] + k - 1) % bucket_count
            /\ (/\ op[t] = "try_pull_from_all_buckets"
                /\ pc[t] = "idle" /\ ret[t] = None) =>
                  Len(probes[t]) = bucket_count

AllBucketsStep ==
    \A t \in Threads :
        /\ (pc[t] = "idle" /\ pc'[t] = "pull_loop") =>
               /\ pull_ctr' = pull_ctr + 1
               /\ bucket'[t] = pull_ctr % bucket_count
               /\ buckets' = buckets
        /\ (pc[t] = "pull_loop" /\ probes'[t] # probes[t]) =>
               LET b == Last(probes'[t]) IN
               /\ probes'[t] = Append(probes[t], b)
               /\ \A b2 \in BucketIdx \ {b} : buckets'[b2] = buckets[b2]
               /\ IF buckets[b] # <<>>
                  THEN /\ pc'[t] = "idle"
                       /\ ret'[t] = Last(buckets[b])
                       /\ buckets'[b] = Front(buckets[b])
                  ELSE /\ pc'[t] = "pull_loop"
                       /\ ret'[t] = None
                       /\ buckets' = buckets
        /\ (/\ pc[t] = "pull_loop" /\ Returns(t) /\ alone[t]
            /\ op[t] = "try_pull_from_all_buckets") =>
               ((ret'[t] # None) <=> (TotalPooled > 0))

AllBuckets == []AllBucketsState /\ [][AllBucketsStep]_vars

\* A try_pull_from_all_buckets found bucket 1 empty, wrapped to bucket 0
\* and took an item there.
AllBucketsWitness ==
    \E t \in Threads :
        /\ op[t] = "try_pull_from_all_buckets" /\ pc[t] = "idle"
        /\ ret[t] # None
        /\ probes[t] = <<1, 0>>

(***************************************************************************)
(* C11: pull_with_fallback always returns a handle holding an item, also   *)
(* on an exhausted pool and with capacity 0: the item its probe of the     *)
(* buckets popped, or else a new item from the fallback, which is called   *)
(* only after every bucket was probed and found empty, at most once per    *)
(* call and by no other operation; the new item is in no bucket, and an    *)
(* item enters a bucket only through the re_attach of a released handle.   *)
(***************************************************************************)
FallbackState ==
    /\ \A t \in Threads :
          (op[t] = "pull_with_fallback" /\ pc[t] = "idle") => ret[t] # None
    /\ \A i \in Items :
          stage[i] \in {"unmade", "modifiable"} => InBuckets(i) = 0

FallbackStep ==
    /\ \A t \in Threads :
          (pc[t] = "pull_loop" /\ op[t] = "pull_with_fallback" /\ Returns(t)) =>
             /\ ret'[t] # None
             /\ modifiable[ret'[t]] = 0 /\ modifiable'[ret'[t]] = 1
             /\ IF made' = made
                THEN /\ Len(probes'[t]) = Len(probes[t]) + 1
                     /\ buckets[Last(probes'[t])] # <<>>
                     /\ ret'[t] = Last(buckets[Last(probes'[t])])
                ELSE /\ made' = made + 1
                     /\ ret'[t] = bucket_count * capacity + made'
                     /\ stage[ret'[t]] = "unmade"
                     /\ Len(probes[t]) = bucket_count
                     /\ probes'[t] = probes[t]
                     /\ buckets' = buckets
             /\ \A i \in Items : ret'[t] = i => InBucketsNext(i) = 0
             /\ alone[t] => ((made' = made) <=> (TotalPooled > 0))
    /\ made' # made =>
          \E t \in Threads :
              pc[t] = "pull_loop" /\ op[t] = "pull_with_fallback" /\ Returns(t)
    /\ \A i \in Items :
          (InBuckets(i) = 0 /\ InBucketsNext(i) > 0) =>
              \E t \in Threads :
                  /\ pc[t] = "re_attach" /\ mem[t] = i
                  /\ op[t] \in {"drop", "drop_shared"}

FallbackAlwaysReturns == []FallbackState /\ [][FallbackStep]_vars

\* A pool of capacity at least 1 was drained, and a pull_with_fallback that
\* found every bucket empty came back with a new item that is in no bucket.
FallbackWitness ==
    \E t \in Threads :
        /\ capacity >= 1 /\ TotalPooled = 0
        /\ op[t] = "pull_with_fallback" /\ pc[t] = "idle"
        /\ ret[t] = bucket_count * capacity + 1 /\ made = 1
        /\ Len(probes[t]) = bucket_count
        /\ modifiable[ret[t]] = 1 /\ InBuckets(ret[t]) = 0

(***************************************************************************)
(* C12: Capacity shedding.  A re_attach that runs while every bucket is at *)
(* capacity changes no bucket and ends by discarding its item, which is    *)
(* then in no bucket; a re_attach during which no other thread took a step *)
(* discards iff every bucket is at capacity.  The release completes: the   *)
(* loop has a next step until it ends, after at most bucket_count + 1      *)
(* probes, and there is no failing path.                                   *)
(***************************************************************************)
AllFull == \A b \in BucketIdx : Len(buckets[b]) >= capacity

SheddingState ==
    \A t \in Threads :
        pc[t] = "re_attach" =>
            /\ mem[t] # None
            /\ Len(probes[t]) <= bucket_count + 1
            /\ ENABLED (re_attach_probe(t) \/ re_attach_discard(t))

SheddingStep ==
    \A t \in Threads : \A i \in Items :
        (pc[t] = "re_attach" /\ mem[t] = i) =>
           /\ (AllFull /\ (probes'[t] # probes[t] \/ Returns(t))) =>
                 /\ buckets' = buckets
                 /\ Returns(t) =>
                       /\ discarded'[i] = discarded[i] + 1
                       /\ InBucketsNext(i) = 0
                       /\ mem'[t] = None
           /\ (Returns(t) /\ alone[t]) =>
                 (AllFull <=> discarded'[i] = discarded[i] + 1)
           /\ discarded'[i] # discarded[i] =>
                 /\ Returns(t)
                 /\ buckets' = buckets
                 /\ {probes[t][k] : k \in 1..Len(probes[t])} = BucketIdx

CapacityShedding == []SheddingState /\ [][SheddingStep]_vars

\* Scenario D: two buckets of capacity 1, both back at capacity, and the
\* fallback-made third item was discarded by the release of its handle.
SheddingWitness ==
    /\ bucket_count = 2 /\ capacity = 1
    /\ \A b \in BucketIdx : Len(buckets[b]) = 1
    /\ discarded[3] = 1 /\ InBuckets(3) = 0
    /\ Quiet /\ Outstanding = 0

(***************************************************************************)
(* C13: unfreeze needs sole ownership.  A request to unfreeze a shared     *)
(* handle that has another owner is refused (an ownership error) and       *)
(* changes no handle and no bucket; no step taken while an item has more   *)
(* than one shared owner gives it an exclusive handle; an exclusive handle *)
(* comes out of a shared one only when its strong count is 1, and no item  *)
(* is held by an exclusive handle while a shared owner of it lives.        *)
(***************************************************************************)
UnfreezeState ==
    \A i \in Items :
        modifiable[i] >= 1 => (strong[i] = 0 /\ shareable[i] = 0)

UnfreezeStep ==
    /\ \A i \in Items :
          /\ (stage[i] = "frozen" /\ modifiable'[i] > modifiable[i]) =>
                /\ strong[i] = 1 /\ strong'[i] = 0
                /\ shareable'[i] = 0 /\ modifiable'[i] = 1
                /\ calls'[i] = 0 /\ insert_ctr' = insert_ctr
          /\ strong[i] > 1 =>
                /\ modifiable'[i] = 0
                /\ shareable'[i] = 1 /\ strong'[i] >= 1
                /\ stage'[i] = "frozen"
    /\ \A t \in Threads :
          (op'[t] = "unfreeze_refused" /\ op[t] # "unfreeze_refused") =>
             /\ \E i \in Items : strong[i] > 1
             /\ handle_vars' = handle_vars
             /\ buckets' = buckets
             /\ stage' = stage
             /\ ret'[t] = None

UnfreezeSoleOwner == []UnfreezeState /\ [][UnfreezeStep]_vars

\* The only item ever pulled was frozen and cloned, an unfreeze was refused
\* while the clone was alive, and after the clone was dropped the item came
\* back into an exclusive handle without passing through re_attach.
UnfreezeWitness ==
    \E t \in Threads : \E i \in Items :
        /\ op[t] = "unfreeze_refused"
        /\ pull_ctr = 1 /\ insert_ctr = 0
        /\ modifiable[i] = 1 /\ strong[i] = 0 /\ stage[i] = "modifiable"

(***************************************************************************)
(* C14: freeze transfers the item without returning it.  The step that     *)
(* freezes an exclusive handle ends that handle and leaves a shared handle *)
(* of the same item with strong count 1; it calls no re_attach (also not   *)
(* from the drop of the consumed handle), and changes no bucket, no        *)
(* counter and no other item's handles.                                    *)
(***************************************************************************)
FreezeStep ==
    \A i \in Items :
        (stage[i] = "modifiable" /\ stage'[i] = "frozen") =>
           /\ modifiable[i] = 1 /\ modifiable'[i] = 0
           /\ shareable[i] = 0 /\ shareable'[i] = 1
           /\ strong[i] = 0 /\ strong'[i] = 1
           /\ calls'[i] = 0 /\ calls' = calls
           /\ mem' = mem /\ pc' = pc
           /\ buckets' = buckets
           /\ pull_ctr' = pull_ctr /\ insert_ctr' = insert_ctr
           /\ detached' = detached /\ discarded' = discarded /\ made' = made
           /\ \A j \in Items \ {i} :
                 /\ modifiable'[j] = modifiable[j]
                 /\ shareable'[j] = shareable[j]
                 /\ strong'[j] = strong[j]

FreezeTransfers == [][FreezeStep]_vars

\* An item pulled from a bucket has just been frozen: one owner, no return
\* was ever started, and the bucket it came from is still short of it.
FreezeWitness ==
    \E i \in Items :
        /\ stage[i] = "frozen" /\ strong[i] = 1 /\ peak[i] = 1
        /\ shareable[i] = 1 /\ modifiable[i] = 0
        /\ insert_ctr = 0 /\ pull_ctr = 1
        /\ TotalPooled = bucket_count * capacity - 1

(***************************************************************************)
(* C15: No blocking and no deadlock.  With the locks taken step by step    *)
(* and fair scheduling: a thread is inside at most one bucket mutex, only  *)
(* for its critical section, and never while it asks for another; an       *)
(* operation takes at most 1 (try_pull), bucket_count (the other pulls) or *)
(* bucket_count + 1 (a release) locks; a thread inside an operation can    *)
(* take a step unless the mutex it asks for is occupied by another thread, *)
(* which can then finish its critical section (no thread waits for a       *)
(* handle to be released, and no state is a deadlock); and every operation *)
(* a thread has started ends.                                              *)
(***************************************************************************)
Holding(t) == {b \in BucketIdx : lock[b] = t}

LockBound(t) ==
    IF op[t] = "try_pull" THEN 1
    ELSE IF AllBucketsOp(t) THEN bucket_count
    ELSE bucket_count + 1

NoBlockingState ==
    \A t \in Threads :
        /\ Cardinality(Holding(t)) <= 1
        /\ Holding(t) # {} =>
              /\ at_lock(t) /\ Holding(t) = {target(t)}
              /\ ENABLED in_operation(t)
        /\ Len(probes[t]) + Cardinality(Holding(t)) <= LockBound(t)
        /\ pc[t] # "idle" =>
              \/ ENABLED (lock_bucket(t) \/ in_operation(t))
              \/ \E u \in Threads \ {t} :
                     lock[target(t)] = u /\ ENABLED in_operation(u)

OperationsEnd == \A t \in Threads : (pc[t] # "idle") ~> (pc[t] = "idle")

NoBlocking == []NoBlockingState /\ OperationsEnd

\* A release that found every bucket at capacity once asks for a mutex that
\* another thread is inside, and waits.
NoBlockingWitness ==
    \E t, u \in Threads :
        /\ t # u
        /\ pc[t] = "re_attach" /\ bucket_inc[t] = bucket_count
        /\ lock[target(t)] = u
        /\ ~ENABLED (lock_bucket(t) \/ in_operation(t))

(***************************************************************************)
(* C16: Bounded return probe.  A re_attach locks at most bucket_count      *)
(* buckets: it starts at (old insert_ctr % bucket_count), goes on in       *)
(* wrapping order and never locks the same bucket twice in one call, also  *)
(* when every bucket is at capacity.                                       *)
(***************************************************************************)
ReturnOp(t) == op[t] \in {"drop", "drop_shared"}

ReturnProbeBound ==
    \A t \in Threads :
        ReturnOp(t) =>
            /\ Len(probes[t]) <= bucket_count
            /\ \A k \in 1..Len(probes[t]) :
                  probes[t][k] = (bucket[t] + k - 1) % bucket_count
            /\ \A j, k \in 1..Len(probes[t]) :
                  j # k => probes[t][j] # probes[t][k]

(***************************************************************************)
(* C17: First-fit return.  re_attach starts at (old insert_ctr %           *)
(* bucket_count) and locks the buckets in wrapping order; a bucket it      *)
(* finds at capacity is left as it is, and the first one it finds below    *)
(* capacity gets the item appended, which ends the call; that step changes *)
(* no other bucket, and the item is then in exactly one bucket.            *)
(***************************************************************************)
FirstFitState ==
    \A t \in Threads :
        ReturnOp(t) =>
            \A k \in 1..Len(probes[t]) :
                probes[t][k] = (bucket[t] + k - 1) % bucket_count

FirstFitStep ==
    \A t \in Threads :
        /\ (pc[t] = "idle" /\ pc'[t] = "re_attach") =>
               /\ bucket'[t] = insert_ctr % bucket_count
               /\ probes'[t] = <<>>
               /\ buckets' = buckets
        /\ \A i \in Items :
             (pc[t] = "re_attach" /\ mem[t] = i /\ probes'[t] # probes[t]) =>
                LET b == (bucket[t] + Len(probes[t])) % bucket_count IN
                /\ probes'[t] = Append(probes[t], b)
                /\ bucket'[t] = bucket[t]
                /\ \A b2 \in BucketIdx \ {b} : buckets'[b2] = buckets[b2]
                /\ IF Len(buckets[b]) < capacity
                   THEN /\ buckets'[b] = Append(buckets[b], i)
                        /\ InBucketsNext(i) = 1
                        /\ pc'[t] = "idle" /\ mem'[t] = None
                   ELSE /\ buckets' = buckets
                        /\ pc'[t] = "re_attach" /\ mem'[t] = i
                /\ alone[t] =>
                      \A k \in 1..Len(probes[t]) :
                          Len(buckets[probes[t][k]]) >= capacity
        /\ (pc[t] = "re_attach" /\ Returns(t) /\ probes'[t] = probes[t]) =>
               buckets' = buckets

FirstFitReturn == []FirstFitState /\ [][FirstFitStep]_vars

\* With two buckets, a re_attach found its start bucket at capacity and put
\* its item on top of the other one.
FirstFitWitness ==
    \E t \in Threads :
        /\ bucket_count = 2
        /\ ReturnOp(t) /\ pc[t] = "idle"
        /\ bucket_inc[t] = 1 /\ Len(probes[t]) = 2
        /\ probes[t][1] = bucket[t] /\ probes[t][2] # bucket[t]
        /\ Len(buckets[bucket[t]]) = capacity
        /\ buckets[probes[t][2]] # <<>>
        /\ stage[Last(buckets[probes[t][2]])] = "pooled"

(***************************************************************************)
(* C18: Round-robin counters.  pull_ctr goes up by exactly 1 in the step   *)
(* that enters try_pull, try_pull_from_all_buckets or pull_with_fallback   *)
(* and in no other step (so by 1 per call, whatever it probes and          *)
(* returns); insert_ctr goes up by exactly 1 in the step that enters       *)
(* re_attach, once per call, and in no other step; freeze, clone, unfreeze *)
(* (also refused) and detach change neither; neither ever decreases; and a *)
(* pull starts at the bucket after the one the pull before it started at,  *)
(* modulo bucket_count.                                                    *)
(***************************************************************************)
PullEntry(t) == pc[t] = "idle" /\ pc'[t] \in {"try_pull", "pull_loop"}
ReturnEntry(t) == pc[t] = "idle" /\ pc'[t] = "re_attach"

CounterStep ==
    /\ pull_ctr' = pull_ctr + (IF \E t \in Threads : PullEntry(t) THEN 1 ELSE 0)
    /\ insert_ctr' =
          insert_ctr + (IF \E t \in Threads : ReturnEntry(t) THEN 1 ELSE 0)
    /\ \A t \in Threads :
          PullEntry(t) =>
             /\ bucket'[t] = pull_ctr % bucket_count
             /\ last_start # -1 => bucket'[t] = (last_start + 1) % bucket_count
             /\ last_start' = bucket'[t]
    /\ \A i \in Items :
          /\ calls'[i] = calls[i] + 1 => insert_ctr' = insert_ctr + 1
          /\ (\/ stage'[i] = "frozen" /\ stage[i] # "frozen"
              \/ stage'[i] = "detached" /\ stage[i] # "detached"
              \/ stage'[i] = "modifiable" /\ stage[i] = "frozen"
              \/ strong'[i] > strong[i]) =>
                (pull_ctr' = pull_ctr /\ insert_ctr' = insert_ctr)
    /\ \A t \in Threads :
          (op'[t] = "unfreeze_refused" /\ op[t] # "unfreeze_refused") =>
             (pull_ctr' = pull_ctr /\ insert_ctr' = insert_ctr)

RoundRobinCounters ==
    [](pull_ctr >= 0 /\ insert_ctr >= 0) /\ [][CounterStep]_vars

\* Two try_pull calls, one after the other and nothing else: the first went
\* to bucket 0 and the second to bucket 1.
RoundRobinWitness ==
    /\ bucket_count = 2 /\ pull_ctr = 2 /\ insert_ctr = 0
    /\ last_start = 1
    /\ op[1] = "try_pull" /\ probes[1] = <<0>> /\ pc[1] = "idle"
    /\ op[2] = "try_pull" /\ probes[2] = <<1>> /\ pc[2] = "idle"

(***************************************************************************)
(* C19: No loss of pool-originated items under concurrency.  As claimed:   *)
(* with any number of threads, no fallback and no detach, re_attach never  *)
(* discards an item, so with no handle outstanding and no operation in     *)
(* progress the buckets together hold bucket_count * capacity items.       *)
(***************************************************************************)
NoLossConcurrent ==
    (NoFallback /\ NoDetach) =>
        /\ NoDiscard
        /\ (Quiet /\ Outstanding = 0) => TotalPooled = bucket_count * capacity

(***************************************************************************)
(* C19, amended: with no fallback and no detach, re_attach discards an     *)
(* item only when steps of other threads fell between its probes: it then  *)
(* found each bucket at capacity at the moment it locked it (bucket_count  *)
(* + 1 locks).  A re_attach during which no other thread takes a step      *)
(* never discards.  With no handle outstanding and no operation in         *)
(* progress the buckets hold bucket_count * capacity items minus the       *)
(* discarded ones.                                                         *)
(***************************************************************************)
TotalDiscarded == SumOver(discarded, Items)

NoLossState ==
    (NoFallback /\ NoDetach) =>
        ((Quiet /\ Outstanding = 0) =>
            TotalPooled = bucket_count * capacity - TotalDiscarded)

NoLossStep ==
    (NoFallback /\ NoDetach) =>
        \A t \in Threads : \A i \in Items :
            (pc[t] = "re_attach" /\ mem[t] = i
             /\ discarded'[i] # discarded[i]) =>
                /\ ~alone[t]
                /\ Len(probes[t]) = bucket_count + 1
                /\ {probes[t][k] : k \in 1..Len(probes[t])} = BucketIdx
                /\ discarded'[i] = discarded[i] + 1

NoLossUndisturbed == []NoLossState /\ [][NoLossStep]_vars

\* Without fallback and detach an item has been discarded: every handle is
\* released, no operation runs, and the buckets are one item short.
NoLossWitness ==
    /\ NoFallback /\ NoDetach
    /\ TotalDiscarded = 1
    /\ Quiet /\ Outstanding = 0
    /\ TotalPooled = bucket_count * capacity - 1

(***************************************************************************)
(* C20: Item conservation.  In every reachable state the items in the      *)
(* buckets, those held (by exclusive handles, by shared handle families    *)
(* and by returns in progress), those detached and those discarded by      *)
(* re_attach add up to bucket_count * capacity plus the items made by      *)
(* fallbacks; and the number of items under the pool's management changes  *)
(* only by one fallback construction (+1), one detach (-1) or one discard  *)
(* (-1) in a step.                                                         *)
(***************************************************************************)
TotalDetached == SumOver(detached, Items)
Managed == TotalPooled + Outstanding

ConservationState ==
    TotalPooled + Outstanding + TotalDetached + TotalDiscarded
        = bucket_count * capacity + made

ConservationStep ==
    LET fallbacks == made' - made
        detaches == {i \in Items : detached'[i] # detached[i]}
        discards == {i \in Items : discarded'[i] # discarded[i]}
    IN  /\ fallbacks \in {0, 1}
        /\ \A i \in detaches : detached'[i] = detached[i] + 1
        /\ \A i \in discards : discarded'[i] = discarded[i] + 1
        /\ fallbacks + Cardinality(detaches) + Cardinality(discards) <= 1
        /\ Managed' = Managed + fallbacks
                              - Cardinality(detaches) - Cardinality(discards)

ItemConservation == []ConservationState /\ [][ConservationStep]_vars

\* In a pool of capacity at least 1 a fallback made an item, an item was
\* detached and an item was discarded: one item fewer than MemPool::new made
\* is left in the buckets and in handles.
ConservationWitness ==
    /\ capacity >= 1
    /\ made = 1 /\ TotalDetached = 1 /\ TotalDiscarded = 1
    /\ TotalPooled + Outstanding = bucket_count * capacity - 1

=============================================================================
